---- MODULE Spec2Model ----
(***************************************************************************)
(* Model of apstndb/spanner-mcp: the three MCP tool handlers (plan,        *)
(* get_ddl, update_ddl) of main.go, the earlier plan handler of            *)
(* unnamed/part_001, and the query-plan formatter printResult.             *)
(*                                                                         *)
(* Strings are TLA+ strings; a strings.Builder is the sequence of the      *)
(* lines written to it (every write of the program ends in "\n"), and      *)
(* String(b) is the text it holds.                                         *)
(***************************************************************************)
EXTENDS Integers, Sequences, FiniteSets, TLC

(***************************************************************************)
(* Bounds of the model.                                                    *)
(***************************************************************************)
MaxRows == 2
MaxPreds == 2
MaxLinks == 1

(***************************************************************************)
(* fmt and strings.                                                        *)
(***************************************************************************)
RECURSIVE Repeat(_, _)
Repeat(s, count) == IF count <= 0 THEN "" ELSE s \o Repeat(s, count - 1)

DigitChar == <<"0", "1", "2", "3", "4", "5", "6", "7", "8", "9">>

\* fmt.Sprint of a non-negative integer: its decimal digits.
RECURSIVE Sprint(_)
Sprint(n) == IF n < 10 THEN DigitChar[n + 1]
             ELSE Sprint(n \div 10) \o DigitChar[(n % 10) + 1]

\* fmt.Sprintf("%*d:", width, n): n right-justified in width, then a colon.
SprintfIDColon(width, n) == Repeat(" ", width - Len(Sprint(n))) \o Sprint(n) \o ":"

RECURSIVE JoinFrom(_, _, _)
JoinFrom(elems, k, sep) ==
    IF k > Len(elems) THEN ""
    ELSE IF k = Len(elems) THEN elems[k]
    ELSE elems[k] \o sep \o JoinFrom(elems, k + 1, sep)

\* strings.Join
Join(elems, sep) == JoinFrom(elems, 1, sep)

RECURSIVE StringFrom(_, _)
StringFrom(lines, k) ==
    IF k > Len(lines) THEN "" ELSE lines[k] \o "\n" \o StringFrom(lines, k + 1)

\* strings.Builder.String
String(lines) == StringFrom(lines, 1)

Max(a, b) == IF a > b THEN a ELSE b
Min(a, b) == IF a < b THEN a ELSE b

(***************************************************************************)
(* Plan rows (plantree.RowWithPredicates) handed to printResult.           *)
(* A row is [ID, Text, Predicates, ChildLinks]; ChildLinks is a function    *)
(* from link-type keys to sequences of links [Variable, Description].      *)
(***************************************************************************)
IDSet == {0, 3, 9, 10, 100}
LinkIDSet == {3, 10}

PredPool == <<"p = 1", "q > 2", "r < 3", "s = t">>
PredSeqs == {SubSeq(PredPool, 1, k) : k \in 0..Min(MaxPreds, Len(PredPool))}

LinkTypes == {"", "Input", "Scalar"}

\* The bytes of a link-type key (Go compares strings bytewise).
KeyBytes(k) == CASE k = "" -> <<>>
                 [] k = "Input" -> <<73, 110, 112, 117, 116>>
                 [] k = "Scalar" -> <<83, 99, 97, 108, 97, 114>>

NoDescLink == [Variable |-> "", Description |-> ""]
VarLink == [Variable |-> "x", Description |-> "Scan(Table: T)"]
PlainLink == [Variable |-> "", Description |-> "Scan(Table: T)"]

NoLinks == [k \in {} |-> <<>>]

\* Child-link maps of the rows whose predicates vary.
PlanLinkMaps ==
    { NoLinks,
      [k \in {""} |-> <<VarLink>>],
      [k \in {"Input", "Scalar"} |->
          IF k = "Input" THEN <<PlainLink>> ELSE <<VarLink, PlainLink>>] }

\* Child-link maps of the rows whose links vary: every key is absent or
\* holds up to MaxLinks links.
LinkSeqs == UNION {[1..n -> {NoDescLink, VarLink}] : n \in 0..MaxLinks}
LinkMapsOver(keys) == [keys -> LinkSeqs]
VaryLinkMaps ==
    UNION { LinkMapsOver(keys) \cup
            { [k \in keys \cup {""} |-> IF k = "" THEN <<VarLink>> ELSE f[k]]
                : f \in LinkMapsOver(keys) }
          : keys \in SUBSET (LinkTypes \ {""}) }

OperatorText(id) == CASE id = 0 -> "Distributed Union"
                      [] id = 3 -> "+- Filter"
                      [] id = 9 -> "+- Scan"
                      [] id = 10 -> "   +- Table Scan (Table: T)"
                      [] OTHER -> "Serialize Result"

Row(id, preds, links) ==
    [ID |-> id, Text |-> OperatorText(id), Predicates |-> preds, ChildLinks |-> links]

PlanDetails == PredSeqs \X PlanLinkMaps
LinkDetails == {SubSeq(PredPool, 1, k) : k \in 0..Min(MaxPreds, 1)} \X VaryLinkMaps

InjSeqs(ids, n) == {s \in [1..n -> ids] : \A i, j \in 1..n : i # j => s[i] # s[j]}

\* The rows with the IDs s and the predicates and links d, in that order.
Rows(n, s, d) == [i \in 1..n |-> Row(s[i], d[i][1], d[i][2])]

(***************************************************************************)
(* tablewriter: a bordered two-column table, the first column right-       *)
(* aligned, the second left-aligned, headers left-aligned, no wrapping.    *)
(***************************************************************************)
\* plantree.RowWithPredicates.FormatID: the ID, starred when the row has
\* predicates.
FormatID(row) == (IF Len(row.Predicates) # 0 THEN "*" ELSE "") \o Sprint(row.ID)

\* plantree.RowWithPredicates.Text
Text(row) == row.Text

PadRight(s, width) == s \o Repeat(" ", width - Len(s))
PadLeft(s, width) == Repeat(" ", width - Len(s)) \o s

RECURSIVE ColumnWidth(_, _, _, _)
ColumnWidth(cells, col, k, width) ==
    IF k > Len(cells) THEN width
    ELSE ColumnWidth(cells, col, k + 1, Max(width, Len(cells[k][col])))

TableLine(w1, w2) == "+" \o Repeat("-", w1 + 2) \o "+" \o Repeat("-", w2 + 2) \o "+"
TableHeading(header, w1, w2) ==
    "| " \o PadRight(header[1], w1) \o " | " \o PadRight(header[2], w2) \o " |"
TableRow(cells, w1, w2) ==
    "| " \o PadLeft(cells[1], w1) \o " | " \o PadRight(cells[2], w2) \o " |"

\* Table.Render: the lines written to the table's writer.
Render(cells, header) ==
    LET w1 == ColumnWidth(cells, 1, 1, Len(header[1]))
        w2 == ColumnWidth(cells, 2, 1, Len(header[2]))
    IN  <<TableLine(w1, w2), TableHeading(header, w1, w2), TableLine(w1, w2)>>
        \o [k \in 1..Len(cells) |-> TableRow(cells[k], w1, w2)]
        \o <<TableLine(w1, w2)>>

(***************************************************************************)
(* printResult                                                             *)
(***************************************************************************)
\* The cells appended to the table, one pair per row, in row order.
TableCells(rows) == [k \in 1..Len(rows) |-> <<FormatID(rows[k]), Text(rows[k])>>]

\* Mutant: the table is rendered for an empty sequence too.
RenderedTableAlways(rows) == Render(TableCells(rows), <<"ID", "Operator">>)

\* The table part of the report: rendered only for a non-empty sequence.
RenderedTable(rows) ==
    IF Len(rows) > 0 THEN Render(TableCells(rows), <<"ID", "Operator">>) ELSE <<>>

RECURSIVE MaxIDLengthFrom(_, _, _)
MaxIDLengthFrom(rows, k, maxIDLength) ==
    IF k > Len(rows) THEN maxIDLength
    ELSE LET length == Len(Sprint(rows[k].ID))
         IN  MaxIDLengthFrom(rows, k + 1,
                             IF length > maxIDLength THEN length ELSE maxIDLength)

\* Mutant: the length of the last ID instead of the greatest one.
MaxIDLengthLast(rows) ==
    IF Len(rows) = 0 THEN 0 ELSE Len(Sprint(rows[Len(rows)].ID))

\* The first loop over the rows: the widest decimal ID.
MaxIDLength(rows) == MaxIDLengthFrom(rows, 1, 0)

\* The prefix of the line with (0-based) index i among the lines of a row.
LinePrefix(i, maxIDLength, id) ==
    IF i = 0 THEN SprintfIDColon(maxIDLength, id) ELSE Repeat(" ", maxIDLength + 1)

\* Mutant: every predicate line of a row carries the ID.
PredicateLinesRepeatID(row, maxIDLength) ==
    [k \in 1..Len(row.Predicates) |->
        LinePrefix(0, maxIDLength, row.ID) \o " " \o row.Predicates[k]]

\* The predicate lines of one row.
PredicateLines(row, maxIDLength) ==
    [k \in 1..Len(row.Predicates) |->
        LinePrefix(k - 1, maxIDLength, row.ID) \o " " \o row.Predicates[k]]

RECURSIVE LexLess(_, _)
LexLess(a, b) ==
    IF Len(b) = 0 THEN FALSE
    ELSE IF Len(a) = 0 THEN TRUE
    ELSE IF Head(a) # Head(b) THEN Head(a) < Head(b)
    ELSE LexLess(Tail(a), Tail(b))

\* lox.EntriesSortedByKey: the entries of the map in ascending key order.
RECURSIVE SortedKeys(_)
SortedKeys(keys) ==
    IF keys = {} THEN <<>>
    ELSE LET least == CHOOSE k \in keys :
                          \A o \in keys \ {k} : LexLess(KeyBytes(k), KeyBytes(o))
         IN  <<least>> \o SortedKeys(keys \ {least})

EntriesSortedByKey(m) ==
    LET keys == SortedKeys(DOMAIN m)
    IN  [k \in 1..Len(keys) |-> [Key |-> keys[k], Value |-> m[keys[k]]]]

\* The description of one child link.
LinkDescription(item) ==
    IF item.Variable # ""
    THEN "$" \o item.Variable \o "=" \o item.Description
    ELSE item.Description

JoinLinks(childLinks) ==
    Join([k \in 1..Len(childLinks) |-> LinkDescription(childLinks[k])], ", ")

\* Mutant: i counts the link types visited, skipped ones included.
RECURSIVE ChildLinkLinesCountSkipped(_, _, _, _, _, _)
ChildLinkLinesCountSkipped(entries, k, i, maxIDLength, id, lines) ==
    IF k > Len(entries) THEN lines
    ELSE LET typ == entries[k].Key
             join == JoinLinks(entries[k].Value)
         IN  IF typ = ""
             THEN ChildLinkLinesCountSkipped(entries, k + 1, i, maxIDLength, id, lines)
             ELSE IF join = ""
             THEN ChildLinkLinesCountSkipped(entries, k + 1, i + 1, maxIDLength, id, lines)
             ELSE ChildLinkLinesCountSkipped(entries, k + 1, i + 1, maxIDLength, id,
                     Append(lines,
                            LinePrefix(i, maxIDLength, id) \o " " \o typ \o ": " \o join))

\* The loop over the sorted entries of one row: i counts the lines produced.
RECURSIVE ChildLinkLinesFrom(_, _, _, _, _, _)
ChildLinkLinesFrom(entries, k, i, maxIDLength, id, lines) ==
    IF k > Len(entries) THEN lines
    ELSE LET typ == entries[k].Key
             join == JoinLinks(entries[k].Value)
             typePartStr == IF typ # "" THEN typ \o ": " ELSE ""
         IN  IF typ = "" \/ join = ""
             THEN ChildLinkLinesFrom(entries, k + 1, i, maxIDLength, id, lines)
             ELSE ChildLinkLinesFrom(entries, k + 1, i + 1, maxIDLength, id,
                     Append(lines,
                            LinePrefix(i, maxIDLength, id) \o " " \o typePartStr \o join))

\* The child-link lines of one row.
ChildLinkLines(row, maxIDLength) ==
    ChildLinkLinesFrom(EntriesSortedByKey(row.ChildLinks), 1, 0, maxIDLength, row.ID, <<>>)

\* Mutant: the lines of a row are put before those of the rows before it.
RECURSIVE PredicatesFromReversed(_, _, _)
PredicatesFromReversed(rows, k, maxIDLength) ==
    IF k > Len(rows) THEN <<>>
    ELSE PredicatesFromReversed(rows, k + 1, maxIDLength)
             \o PredicateLines(rows[k], maxIDLength)

\* The second loop over the rows: the predicates and parameters slices.
RECURSIVE PredicatesFrom(_, _, _)
PredicatesFrom(rows, k, maxIDLength) ==
    IF k > Len(rows) THEN <<>>
    ELSE PredicateLines(rows[k], maxIDLength) \o PredicatesFrom(rows, k + 1, maxIDLength)

RECURSIVE ParametersFrom(_, _, _)
ParametersFrom(rows, k, maxIDLength) ==
    IF k > Len(rows) THEN <<>>
    ELSE ChildLinkLines(rows[k], maxIDLength) \o ParametersFrom(rows, k + 1, maxIDLength)

PredicatesHeader == "Predicates(identified by ID):"

\* Mutant: the header is written without the test for predicates.
PredicateSectionAlways(preds, params) ==
    <<"Predicates(identified by ID):">> \o [k \in 1..Len(preds) |-> " " \o preds[k]]

\* Mutant: the lines are written without the leading blank.
PredicateSectionNoIndent(preds, params) ==
    IF Len(preds) > 0
    THEN <<"Predicates(identified by ID):">> \o preds
    ELSE <<>>

\* What is written to the builder after the table.
PredicateSection(preds, params) ==
    IF Len(preds) > 0
    THEN <<PredicatesHeader>> \o [k \in 1..Len(preds) |-> " " \o preds[k]]
    ELSE <<>>

\* Mutant: the child-link lines are written after the predicate section.
printResultWithParameters(rs) ==
    LET m == MaxIDLength(rs)
        preds == PredicatesFrom(rs, 1, m)
        params == ParametersFrom(rs, 1, m)
    IN  [maxIDLength |-> m,
         predicates |-> preds,
         parameters |-> params,
         b |-> RenderedTable(rs) \o PredicateSection(preds, params)
                 \o (IF Len(params) > 0
                     THEN <<"Parameters(identified by ID):">>
                              \o [k \in 1..Len(params) |-> " " \o params[k]]
                     ELSE <<>>)]

\* printResult: its locals when it returns; String(b) is the report.
printResult(rs) ==
    LET m == MaxIDLength(rs)
        preds == PredicatesFrom(rs, 1, m)
        params == ParametersFrom(rs, 1, m)
    IN  [maxIDLength |-> m,
         predicates |-> preds,
         parameters |-> params,
         b |-> RenderedTable(rs) \o PredicateSection(preds, params)]

(***************************************************************************)
(* State: one invocation of one tool handler.                              *)
(*   tool        the handler invoked                                       *)
(*   pc          the next call of the handler, "done" after it returned     *)
(*   req         the decoded request (the zero value until decoded)        *)
(*   client      "none", "open" (created, Close deferred) or "closed"      *)
(*   calls       the calls made so far, in order                           *)
(*   failed      the calls that returned a non-nil error                   *)
(*   ret         what the handler returned: the number of contents of the  *)
(*               result (0: nil) and the error ("nil" or the failed call)   *)
(*   rows        the rows plantree.ProcessPlan returned                    *)
(*   maxIDLength, predicates, parameters, b   the locals of printResult    *)
(***************************************************************************)
VARIABLES tool, pc, req, client, calls, failed, ret, rows,
          maxIDLength, predicates, parameters, b

vars == <<tool, pc, req, client, calls, failed, ret, rows,
          maxIDLength, predicates, parameters, b>>

fmtVars == <<rows, maxIDLength, predicates, parameters, b>>

Handlers == {"plan", "get_ddl", "update_ddl", "plan_part_001"}

ZeroReq == [Valid |-> FALSE, IncludeProtoDescriptors |-> FALSE]

Init ==
    /\ tool \in Handlers
    /\ pc = "mapToStruct"
    /\ req = ZeroReq
    /\ client = "none"
    /\ calls = <<>>
    /\ failed = {}
    /\ ret = [contents |-> 0, err |-> "nil"]
    /\ rows = <<>>
    /\ maxIDLength = 0
    /\ predicates = <<>>
    /\ parameters = <<>>
    /\ b = <<>>

\* Mutant: Close is not deferred.
DeferredNever(cs, cl) == cs

\* The deferred calls run when the handler returns: client.Close, deferred
\* once the client was created.
Deferred(cs, cl) == IF cl = "open" THEN Append(cs, "Close") ELSE cs

\* return result, err: after the calls cs.
Return(cs, contents, e) ==
    /\ pc' = "done"
    /\ ret' = [contents |-> contents, err |-> e]
    /\ calls' = Deferred(cs, client)
    /\ failed' = IF e = "nil" THEN failed ELSE failed \cup {e}
    /\ client' = IF client = "open" THEN "closed" ELSE client

\* A call that fails returns (nil, err); one that succeeds goes on to next.
Step(call, next, ok) ==
    IF ok
    THEN /\ pc' = next
         /\ calls' = Append(calls, call)
         /\ UNCHANGED <<client, failed, ret>>
    ELSE Return(Append(calls, call), 0, call)

\* mapToStruct: the decoded struct, or the zero value and an error.
mapToStruct(ok, include) ==
    IF ok THEN [Valid |-> TRUE, IncludeProtoDescriptors |-> include] ELSE ZeroReq

\* spanner.NewClient rejects a database path with an empty component, as
\* databasePath builds from the zero request.
NewClientOutcomes(r) == IF r.Valid THEN BOOLEAN ELSE {FALSE}

(***************************************************************************)
(* planHandler (main.go)                                                   *)
(***************************************************************************)
\* The error of mapToStruct is overwritten by the next assignment to err:
\* the handler goes on to spanner.NewClient whether decoding failed or not.
PlanDecode ==
    /\ tool = "plan" /\ pc = "mapToStruct"
    /\ \E ok \in BOOLEAN :
         /\ req' = mapToStruct(ok, FALSE)
         /\ pc' = "NewClient"
         /\ calls' = Append(calls, "mapToStruct")
         /\ failed' = IF ok THEN failed ELSE failed \cup {"mapToStruct"}
    /\ UNCHANGED <<tool, client, ret, fmtVars>>

PlanNewClient ==
    /\ tool = "plan" /\ pc = "NewClient"
    /\ \E ok \in NewClientOutcomes(req) :
         IF ok
         THEN /\ client' = "open"
              /\ pc' = "AnalyzeQuery"
              /\ calls' = Append(calls, "NewClient")
              /\ UNCHANGED <<failed, ret>>
         ELSE Return(Append(calls, "NewClient"), 0, "NewClient")
    /\ UNCHANGED <<tool, req, fmtVars>>

PlanAnalyzeQuery ==
    /\ tool = "plan" /\ pc = "AnalyzeQuery"
    /\ \E ok \in BOOLEAN : Step("AnalyzeQuery", "ProcessPlan", ok)
    /\ UNCHANGED <<tool, req, fmtVars>>

PlanProcessPlan ==
    /\ tool = "plan" /\ pc = "ProcessPlan"
    /\ \/ /\ \E n \in 0..MaxRows :
                \E s \in InjSeqs(IDSet, n), d \in [1..n -> PlanDetails] :
                   rows' = Rows(n, s, d)
          /\ Step("ProcessPlan", "printResult", TRUE)
       \/ /\ \E n \in 0..MaxRows :
                \E s \in InjSeqs(LinkIDSet, n), d \in [1..n -> LinkDetails] :
                   rows' = Rows(n, s, d)
          /\ Step("ProcessPlan", "printResult", TRUE)
       \/ /\ Step("ProcessPlan", "printResult", FALSE)
          /\ UNCHANGED rows
    /\ UNCHANGED <<tool, req, maxIDLength, predicates, parameters, b>>

\* printResult(processed) and the return of its report beside the prototext.
PlanPrintResult ==
    /\ tool = "plan" /\ pc = "printResult"
    /\ \E locals \in {printResult(rows)} :
         /\ maxIDLength' = locals.maxIDLength
         /\ predicates' = locals.predicates
         /\ parameters' = locals.parameters
         /\ b' = locals.b
    /\ Return(Append(calls, "printResult"), 2, "nil")
    /\ UNCHANGED <<tool, req, rows>>

(***************************************************************************)
(* planHandler (unnamed/part_001): the decoding error is checked, and the  *)
(* prototext of the plan is the only content.                              *)
(***************************************************************************)
Plan001Decode ==
    /\ tool = "plan_part_001" /\ pc = "mapToStruct"
    /\ \E ok \in BOOLEAN :
         /\ req' = mapToStruct(ok, FALSE)
         /\ Step("mapToStruct", "NewClient", ok)
    /\ UNCHANGED <<tool, fmtVars>>

Plan001NewClient ==
    /\ tool = "plan_part_001" /\ pc = "NewClient"
    /\ \E ok \in NewClientOutcomes(req) :
         IF ok
         THEN /\ client' = "open"
              /\ pc' = "AnalyzeQuery"
              /\ calls' = Append(calls, "NewClient")
              /\ UNCHANGED <<failed, ret>>
         ELSE Return(Append(calls, "NewClient"), 0, "NewClient")
    /\ UNCHANGED <<tool, req, fmtVars>>

Plan001AnalyzeQuery ==
    /\ tool = "plan_part_001" /\ pc = "AnalyzeQuery"
    /\ \E ok \in BOOLEAN :
         IF ok
         THEN Return(Append(calls, "AnalyzeQuery"), 1, "nil")
         ELSE Return(Append(calls, "AnalyzeQuery"), 0, "AnalyzeQuery")
    /\ UNCHANGED <<tool, req, fmtVars>>

(***************************************************************************)
(* getDDLHandler                                                           *)
(***************************************************************************)
GetDDLDecode ==
    /\ tool = "get_ddl" /\ pc = "mapToStruct"
    /\ \E ok \in BOOLEAN, include \in BOOLEAN :
         /\ req' = mapToStruct(ok, include)
         /\ Step("mapToStruct", "NewDatabaseAdminClient", ok)
    /\ UNCHANGED <<tool, fmtVars>>

\* database.NewDatabaseAdminClient, in get_ddl and update_ddl.
NewDatabaseAdminClient(next) ==
    /\ pc = "NewDatabaseAdminClient"
    /\ \E ok \in BOOLEAN :
         IF ok
         THEN /\ client' = "open"
              /\ pc' = next
              /\ calls' = Append(calls, "NewDatabaseAdminClient")
              /\ UNCHANGED <<failed, ret>>
         ELSE Return(Append(calls, "NewDatabaseAdminClient"), 0, "NewDatabaseAdminClient")
    /\ UNCHANGED <<tool, req, fmtVars>>

GetDDLNewClient == tool = "get_ddl" /\ NewDatabaseAdminClient("GetDatabaseDdl")

GetDDLGetDatabaseDdl ==
    /\ tool = "get_ddl" /\ pc = "GetDatabaseDdl"
    /\ \E ok \in BOOLEAN : Step("GetDatabaseDdl", "Unmarshal", ok)
    /\ UNCHANGED <<tool, req, fmtVars>>

\* proto.Unmarshal of the descriptors, then the contents: the response and,
\* if asked for, the descriptor set.
GetDDLUnmarshal ==
    /\ tool = "get_ddl" /\ pc = "Unmarshal"
    /\ \E ok \in BOOLEAN :
         IF ok
         THEN Return(Append(calls, "Unmarshal"),
                     IF req.IncludeProtoDescriptors THEN 2 ELSE 1, "nil")
         ELSE Return(Append(calls, "Unmarshal"), 0, "Unmarshal")
    /\ UNCHANGED <<tool, req, fmtVars>>

(***************************************************************************)
(* updateDDLHandler                                                        *)
(***************************************************************************)
UpdateDDLDecode ==
    /\ tool = "update_ddl" /\ pc = "mapToStruct"
    /\ \E ok \in BOOLEAN :
         /\ req' = mapToStruct(ok, FALSE)
         /\ Step("mapToStruct", "NewDatabaseAdminClient", ok)
    /\ UNCHANGED <<tool, fmtVars>>

UpdateDDLNewClient == tool = "update_ddl" /\ NewDatabaseAdminClient("UpdateDatabaseDdl")

UpdateDDLUpdateDatabaseDdl ==
    /\ tool = "update_ddl" /\ pc = "UpdateDatabaseDdl"
    /\ \E ok \in BOOLEAN : Step("UpdateDatabaseDdl", "Wait", ok)
    /\ UNCHANGED <<tool, req, fmtVars>>

UpdateDDLWait ==
    /\ tool = "update_ddl" /\ pc = "Wait"
    /\ \E ok \in BOOLEAN : Step("Wait", "Metadata", ok)
    /\ UNCHANGED <<tool, req, fmtVars>>

UpdateDDLMetadata ==
    /\ tool = "update_ddl" /\ pc = "Metadata"
    /\ \E ok \in BOOLEAN :
         IF ok
         THEN Return(Append(calls, "Metadata"), 1, "nil")
         ELSE Return(Append(calls, "Metadata"), 0, "Metadata")
    /\ UNCHANGED <<tool, req, fmtVars>>

Next ==
    \/ PlanDecode
    \/ PlanNewClient
    \/ PlanAnalyzeQuery
    \/ PlanProcessPlan
    \/ PlanPrintResult
    \/ Plan001Decode
    \/ Plan001NewClient
    \/ Plan001AnalyzeQuery
    \/ GetDDLDecode
    \/ GetDDLNewClient
    \/ GetDDLGetDatabaseDdl
    \/ GetDDLUnmarshal
    \/ UpdateDDLDecode
    \/ UpdateDDLNewClient
    \/ UpdateDDLUpdateDatabaseDdl
    \/ UpdateDDLWait
    \/ UpdateDDLMetadata

Spec == Init /\ [][Next]_vars

TypeOK ==
    /\ tool \in Handlers
    /\ client \in {"none", "open", "closed"}
    /\ ret.contents \in 0..2
    /\ Len(rows) <= MaxRows
    /\ \A r \in 1..Len(rows) : DOMAIN rows[r].ChildLinks \subseteq LinkTypes

(***************************************************************************)
(* Vocabulary of the properties.                                           *)
(***************************************************************************)
\* printResult has run and the handler returned its report.
Formatted == pc = "done" /\ tool = "plan" /\ ret.contents = 2

HasPredicates(row) == Len(row.Predicates) > 0

\* The number of decimal digits of a non-negative integer.
RECURSIVE Digits(_)
Digits(n) == IF n < 10 THEN 1 ELSE 1 + Digits(n \div 10)

\* The widest ID of the sequence, 0 for the empty one.
WidestID(rs) ==
    IF rs = <<>> THEN 0
    ELSE CHOOSE w \in {Digits(rs[r].ID) : r \in 1..Len(rs)} :
             \A r \in 1..Len(rs) : Digits(rs[r].ID) <= w

Blanks(n) == Repeat(" ", n)

\* The ID right-justified to width characters, then a colon.
IDPrefix(id, width) == Blanks(width - Len(Sprint(id))) \o Sprint(id) \o ":"

\* The number of predicates of the rows before row r.
RECURSIVE PredsBefore(_, _)
PredsBefore(rs, r) ==
    IF r <= 1 THEN 0 ELSE PredsBefore(rs, r - 1) + Len(rs[r - 1].Predicates)

Count(seq, x) == Cardinality({i \in 1..Len(seq) : seq[i] = x})

\* The lines of the report after the table.
TableLength == IF Len(rows) > 0 THEN Len(rows) + 4 ELSE 0

(***************************************************************************)
(* Properties of printResult.                                              *)
(***************************************************************************)
\* C1: for an empty row sequence printResult returns the empty string (no
\* table header, no table row, no predicate section) and a nil error.
C1_EmptyRowsEmptyReport ==
    (Formatted /\ rows = <<>>) =>
        /\ String(b) = ""
        /\ b = <<>>
        /\ ret.err = "nil"

C1_Witness == Formatted /\ rows = <<>> /\ "printResult" = calls[Len(calls) - 1]

\* C2: the report contains the line "Predicates(identified by ID):" iff some
\* row has a predicate; a non-empty sequence without predicates yields exactly
\* the rendered table, whatever the ChildLinks are.
C2_HeaderIffPredicates ==
    Formatted =>
        /\ (\E i \in 1..Len(b) : b[i] = "Predicates(identified by ID):")
             <=> (\E r \in 1..Len(rows) : HasPredicates(rows[r]))
        /\ (rows # <<>> /\ \A r \in 1..Len(rows) : ~HasPredicates(rows[r])) =>
             /\ Len(b) = Len(rows) + 4
             /\ b = Render(TableCells(rows), <<"ID", "Operator">>)

C2_Witness ==
    /\ Formatted
    /\ rows # <<>>
    /\ \A r \in 1..Len(rows) : ~HasPredicates(rows[r])
    /\ parameters # <<>>
    /\ Len(b) = Len(rows) + 4

\* C3: in the predicate pass, the line of the first predicate of a row is the
\* row's ID right-justified to maxIDLength and a colon, then the predicate;
\* the line of every later predicate of the row starts with maxIDLength+1
\* blanks; the rule restarts for every row.
C3_PrefixRestartsPerRow ==
    Formatted =>
        \A r \in 1..Len(rows) : \A j \in 1..Len(rows[r].Predicates) :
            LET line == predicates[PredsBefore(rows, r) + j]
                pred == rows[r].Predicates[j]
            IN  IF j = 1
                THEN line = IDPrefix(rows[r].ID, maxIDLength) \o " " \o pred
                ELSE line = Blanks(maxIDLength + 1) \o " " \o pred

C3_Witness ==
    /\ Formatted
    /\ Len(rows) = 2
    /\ Len(rows[1].Predicates) = 2
    /\ Len(rows[2].Predicates) = 1
    /\ predicates[3] = IDPrefix(rows[2].ID, maxIDLength) \o " " \o rows[2].Predicates[1]

\* The row of the example of C4: ID 3 with the predicates "p = 1", "q > 2",
\* in a sequence whose widest ID has two digits.
C4_Example(r) ==
    /\ r \in 1..Len(rows)
    /\ rows[r].ID = 3
    /\ rows[r].Predicates = <<"p = 1", "q > 2">>
    /\ maxIDLength = 2

\* C4 as stated: the lines of the example in the predicate section of the
\* report are " 3: p = 1" and "    q > 2".
C4_AsStated ==
    Formatted =>
        \A r \in 1..Len(rows) : C4_Example(r) =>
            LET at == TableLength + 1 + PredsBefore(rows, r)
            IN  /\ b[at + 1] = " 3: p = 1"
                /\ b[at + 2] = "    q > 2"

\* C4 (amended): every accumulated line "<prefix> <predicate>", its prefix
\* maxIDLength+1 wide, is written to the report behind one more blank: the
\* lines of the example are "  3: p = 1" and "     q > 2".
C4_SectionLines ==
    Formatted =>
        /\ \A r \in 1..Len(rows) : C4_Example(r) =>
             LET at == TableLength + 1 + PredsBefore(rows, r)
             IN  /\ b[at + 1] = "  3: p = 1"
                 /\ b[at + 2] = "     q > 2"
        /\ \A r \in 1..Len(rows) : \A j \in 1..Len(rows[r].Predicates) :
             LET line == b[TableLength + 1 + PredsBefore(rows, r) + j]
                 prefix == IF j = 1 THEN IDPrefix(rows[r].ID, maxIDLength)
                                    ELSE Blanks(maxIDLength + 1)
             IN  /\ Len(prefix) = maxIDLength + 1
                 /\ line = " " \o prefix \o " " \o rows[r].Predicates[j]

C4_Witness ==
    /\ Formatted
    /\ \E r \in 1..Len(rows) :
         /\ C4_Example(r)
         /\ b[TableLength + 2 + PredsBefore(rows, r)] = "  3: p = 1"

\* C5: maxIDLength is the greatest number of decimal digits of a row's ID, 0
\* for an empty sequence, and every predicate line of the call has a prefix
\* of that one width plus one.
C5_MaxIDLength ==
    Formatted =>
        /\ maxIDLength = WidestID(rows)
        /\ rows = <<>> => maxIDLength = 0
        /\ \A r \in 1..Len(rows) : \A j \in 1..Len(rows[r].Predicates) :
             Len(predicates[PredsBefore(rows, r) + j])
                 = (WidestID(rows) + 1) + 1 + Len(rows[r].Predicates[j])

C5_Witness ==
    /\ Formatted
    /\ Len(rows) = 2
    /\ rows[1].ID = 100 /\ rows[2].ID = 9
    /\ HasPredicates(rows[1]) /\ HasPredicates(rows[2])
    /\ maxIDLength = 3

\* C6: printResult neither reorders nor drops input: the table rows are the
\* input rows in order, and the predicate section has one line per predicate
\* of every row, ordered by row and then by predicate; a row without
\* predicates contributes no line.
C6_OrderAndCount ==
    Formatted =>
        /\ Len(predicates) = PredsBefore(rows, Len(rows) + 1)
        /\ Len(b) = TableLength + (IF Len(predicates) > 0 THEN 1 + Len(predicates) ELSE 0)
        /\ \A r \in 1..Len(rows) :
             \E w1 \in 0..Len(b[1]) :
                 b[3 + r] = "| " \o Blanks(w1 - Len(FormatID(rows[r]))) \o FormatID(rows[r])
                            \o " | " \o rows[r].Text
                            \o Blanks(Len(b[1]) - 7 - w1 - Len(rows[r].Text)) \o " |"
        /\ \A r \in 1..Len(rows) : \A j \in 1..Len(rows[r].Predicates) :
             LET n == PredsBefore(rows, r) + j
                 pred == rows[r].Predicates[j]
             IN  /\ predicates[n] \in { IDPrefix(rows[r].ID, maxIDLength) \o " " \o pred,
                                        Blanks(maxIDLength + 1) \o " " \o pred }
                 /\ b[TableLength + 1 + n] = " " \o predicates[n]

C6_Witness ==
    /\ Formatted
    /\ Len(rows) = 2
    /\ Len(rows[1].Predicates) = 0
    /\ Len(rows[2].Predicates) = 2
    /\ rows[1].ID > rows[2].ID
    /\ Len(b) = TableLength + 3

\* The rows with their ChildLinks removed.
ClearChildLinks(rs) == [r \in 1..Len(rs) |-> [rs[r] EXCEPT !.ChildLinks = NoLinks]]

\* C7: the report does not depend on ChildLinks: it is the report of the
\* same rows without child links, and no child-link line is part of it.
C7_ReportIgnoresChildLinks ==
    Formatted =>
        /\ String(b) = String(printResult(ClearChildLinks(rows)).b)
        /\ \A i \in 1..Len(b) : \A j \in 1..Len(parameters) :
             b[i] # parameters[j] /\ b[i] # " " \o parameters[j]

C7_Witness ==
    /\ Formatted
    /\ Len(parameters) >= 2
    /\ Len(predicates) >= 1
    /\ \E r \in 1..Len(rows) : HasPredicates(rows[r]) /\ rows[r].ChildLinks # NoLinks

\* The last call made before the deferred ones.
LastCall == IF calls[Len(calls)] = "Close" THEN calls[Len(calls) - 1] ELSE calls[Len(calls)]

\* C8: a failed call ends the handler: it returns that call's error and no
\* result, makes no later call and does not call printResult; after a
\* failed decoding no client is created and no query is sent.  Fails for
\* the plan handler of main.go, which drops the decoding error.
C8_FailureShortCircuits ==
    \A c \in failed :
        /\ pc = "done"
        /\ ret = [contents |-> 0, err |-> c]
        /\ LastCall = c
        /\ Count(calls, "printResult") = 0
        /\ c = "mapToStruct" => calls = <<"mapToStruct">> /\ client = "none"

\* The call that creates the client of the handler.
CreateCall == IF tool \in {"plan", "plan_part_001"} THEN "NewClient" ELSE "NewDatabaseAdminClient"

Created == Count(calls, CreateCall) > 0 /\ CreateCall \notin failed

\* C10: a client that was created is closed exactly once, when the handler
\* returns, on every path; none is closed when its creation failed.
\* update_ddl returns a result only after UpdateDatabaseDdl, Wait and
\* Metadata succeeded in that order, and an error without result otherwise.
C10_ClientClosedOnce ==
    /\ pc # "done" => Count(calls, "Close") = 0 /\ client # "closed"
    /\ pc = "done" =>
         IF Created
         THEN Count(calls, "Close") = 1 /\ calls[Len(calls)] = "Close" /\ client = "closed"
         ELSE Count(calls, "Close") = 0 /\ client = "none"
    /\ (pc = "done" /\ tool = "update_ddl") =>
         /\ ret.contents > 0 =>
              /\ ret.err = "nil" /\ failed = {}
              /\ calls = <<"mapToStruct", "NewDatabaseAdminClient",
                           "UpdateDatabaseDdl", "Wait", "Metadata", "Close">>
         /\ failed # {} => ret.contents = 0 /\ ret.err \in failed /\ LastCall = ret.err
         /\ failed = {} => ret.contents = 1

C10_Witness ==
    /\ pc = "done" /\ tool = "update_ddl"
    /\ ret = [contents |-> 1, err |-> "nil"]
    /\ Count(calls, "Close") = 1
    /\ client = "closed"

\* A link type of a row yields a line: its key is not empty and its links
\* do not all join to the empty string.
Producing(row, k) ==
    /\ k \in DOMAIN row.ChildLinks
    /\ k # ""
    /\ LET links == row.ChildLinks[k]
       IN  \/ Len(links) > 1
           \/ Len(links) = 1 /\ (links[1].Variable # "" \/ links[1].Description # "")

ProducingKeys(row) == {k \in LinkTypes : Producing(row, k)}

RECURSIVE ParamsBefore(_, _)
ParamsBefore(rs, r) ==
    IF r <= 1 THEN 0 ELSE ParamsBefore(rs, r - 1) + Cardinality(ProducingKeys(rs[r - 1]))

\* C9: in the child-link pass the lines of a row are those of its producing
\* link types in ascending key order; the empty key and a type with an empty
\* joined description yield none; the first line produced carries the ID
\* prefix, the later ones the blank prefix, whatever the row's predicates.
C9_ChildLinkLines ==
    Formatted =>
        /\ Len(parameters) = ParamsBefore(rows, Len(rows) + 1)
        /\ \A r \in 1..Len(rows) : \A k \in ProducingKeys(rows[r]) :
             LET rank == Cardinality({o \in ProducingKeys(rows[r]) :
                                         LexLess(KeyBytes(o), KeyBytes(k))})
                 prefix == IF rank = 0 THEN IDPrefix(rows[r].ID, maxIDLength)
                                       ELSE Blanks(maxIDLength + 1)
             IN  parameters[ParamsBefore(rows, r) + rank + 1]
                     = prefix \o " " \o k \o ": " \o JoinLinks(rows[r].ChildLinks[k])

C9_Witness ==
    /\ Formatted
    /\ Len(rows) = 2
    /\ DOMAIN rows[1].ChildLinks = {"", "Input", "Scalar"}
    /\ ~Producing(rows[1], "Input") /\ Producing(rows[1], "Scalar")
    /\ HasPredicates(rows[1])
    /\ ProducingKeys(rows[2]) = {"Input", "Scalar"}
    /\ Len(parameters) = 3
    /\ parameters[1] = IDPrefix(rows[1].ID, maxIDLength) \o " Scalar: $x=Scan(Table: T)"

====
